---- MODULE Spec2Model ----
(***************************************************************************)
(* Model of the virtual queue manager (virtual_queue_manager.py):          *)
(* ServiceQueue, VirtualQueueManager.book_slot / mark_served and the       *)
(* history / booking_index bookkeeping.                                    *)
(*                                                                         *)
(* Strings that the code transforms (service ids, user names, tokens) are  *)
(* sequences of one-character strings so that upper(), strip() and the     *)
(* :03d format are computed, not assumed.                                  *)
(***************************************************************************)
EXTENDS Integers, Sequences, FiniteSets, TLC

VARIABLES
    services,       \* VirtualQueueManager.services: service_id -> ServiceQueue
    order,          \* insertion order of the services dict
    booking_index,  \* VirtualQueueManager.booking_index: token -> Booking
    history,        \* VirtualQueueManager.history: list of snapshots
    last,           \* the last call made and the tuple it returned
    issued,         \* per service: bookings returned by successful book_slot calls
    servedLog,      \* per service: bookings returned by successful mark_served calls
    threads         \* per caller thread: the position and locals of its call in flight

vars == <<services, order, booking_index, history, last, issued, servedLog, threads>>

----------------------------------------------------------------------------
(* Bounds *)

\* largest daily_capacity the first configured service gets
MaxCapacity == 2

\* bookings a service can still take when a long day is picked up
LongDayBookings == 2

----------------------------------------------------------------------------
(* Strings *)

LowerChars == <<"a","b","c","d","e","f","g","h","i","j","k","l","m",
                "n","o","p","q","r","s","t","u","v","w","x","y","z">>
UpperChars == <<"A","B","C","D","E","F","G","H","I","J","K","L","M",
                "N","O","P","Q","R","S","T","U","V","W","X","Y","Z">>
DigitChars == <<"0","1","2","3","4","5","6","7","8","9">>

\* str.upper() on one character
UpperChar(c) ==
    IF \E i \in 1..Len(LowerChars) : LowerChars[i] = c
    THEN UpperChars[CHOOSE i \in 1..Len(LowerChars) : LowerChars[i] = c]
    ELSE c

\* str.upper()
Upper(s) == [i \in 1..Len(s) |-> UpperChar(s[i])]

IsSpace(c) == c = " "

RECURSIVE LStrip(_)
LStrip(s) == IF s # <<>> /\ IsSpace(Head(s)) THEN LStrip(Tail(s)) ELSE s

RECURSIVE RStrip(_)
RStrip(s) ==
    IF s # <<>> /\ IsSpace(s[Len(s)]) THEN RStrip(SubSeq(s, 1, Len(s) - 1)) ELSE s

\* str.strip()
Strip(s) == RStrip(LStrip(s))

\* decimal digits of a natural number, most significant first
RECURSIVE Digits(_)
Digits(n) ==
    IF n < 10 THEN <<DigitChars[n + 1]>>
    ELSE Digits(n \div 10) \o <<DigitChars[(n % 10) + 1]>>

RECURSIVE ZeroPad(_, _)
ZeroPad(s, width) == IF Len(s) >= width THEN s ELSE ZeroPad(<<"0">> \o s, width)

\* mutant: the field is two wide
Format03d_two_wide(n) == ZeroPad(Digits(n), 2)

\* the format spec {n:03d}: at least 3 digits, zero padded
Format03d(n) == ZeroPad(Digits(n), 3)

\* value of one decimal digit character
DigitValue(c) == (CHOOSE i \in 1..10 : DigitChars[i] = c) - 1

RECURSIVE ParseInt(_)
ParseInt(s) ==
    IF s = <<>> THEN 0
    ELSE 10 * ParseInt(SubSeq(s, 1, Len(s) - 1)) + DigitValue(s[Len(s)])

\* the characters of a token after its last hyphen, read as a number
NumericSuffix(token) ==
    LET hy == CHOOSE i \in 1..Len(token) :
                  /\ token[i] = "-"
                  /\ \A j \in (i + 1)..Len(token) : token[j] # "-"
    IN  ParseInt(SubSeq(token, hy + 1, Len(token)))

----------------------------------------------------------------------------
(* Configurations and inputs *)

Doctor == <<"d","o","c">>
DoctorCap == <<"D","o","c">>
Cashier == <<"c","s","h">>

\* avg_service_minutes of the two configured services
AvgFirst == 5
AvgSecond == 10

\* lists of service ids a manager is configured with: two unrelated ids,
\* two ids that differ only in case, and the same id twice
IdLists == { <<Cashier, Doctor>>, <<Doctor, DoctorCap>>, <<Doctor, Doctor>> }

DisplayName(sid) ==
    IF sid = Cashier THEN "Cashier"
    ELSE IF sid = Doctor THEN "Doctor Consultation"
    ELSE "Doctor Consultation (2)"

\* service_configs: lists of (service_id, display_name, daily_capacity, avg_minutes);
\* the second service takes a single booking a day
Configs ==
    { << <<ids[1], DisplayName(ids[1]), c1, AvgFirst>>,
         <<ids[2], DisplayName(ids[2]), 1, AvgSecond>> >> :
        ids \in IdLists, c1 \in 1..MaxCapacity }

\* user names a caller passes: a plain name, the same name with surrounding
\* blanks, the empty name and a whitespace-only name
UserNames == { <<"A">>, <<" ","A"," ">>, <<>>, <<" "," ">> }

\* service ids a caller passes; the lookup is case sensitive, so in every
\* configuration at least one of them is not a configured id
ServiceIdInputs == { Cashier, Doctor, DoctorCap }

----------------------------------------------------------------------------
(* Booking and ServiceQueue *)

Booking(token, user_name, service_id, estimated_wait) ==
    [ token |-> token, user_name |-> user_name, service_id |-> service_id,
      estimated_wait_minutes_at_booking |-> estimated_wait ]

\* Optional[Booking]: <<>> is None, <<b>> is the booking b
None == <<>>
Some(b) == <<b>>

\* ServiceQueue.__init__
ServiceQueue(service_id, display_name, daily_capacity, avg_service_minutes) ==
    [ service_id |-> service_id,
      display_name |-> display_name,
      daily_capacity |-> daily_capacity,
      avg_service_minutes |-> avg_service_minutes,
      waiting |-> <<>>,
      total_bookings_created |-> 0,
      next_token_number |-> 1,
      served_count |-> 0 ]

\* mutant: the capacity test is off by one
is_full_off_by_one(q) == q.total_bookings_created > q.daily_capacity

\* mutant: capacity is compared with the current waiting length
is_full_live_occupancy(q) == Len(q.waiting) >= q.daily_capacity

is_full(q) == q.total_bookings_created >= q.daily_capacity

people_waiting(q) == Len(q.waiting)

\* mutant: the person being booked is counted as ahead of themselves
estimate_wait_minutes_counts_self(q) == (Len(q.waiting) + 1) * q.avg_service_minutes

estimate_wait_minutes(q) == Len(q.waiting) * q.avg_service_minutes

\* mutant: the token number is taken from the position in the waiting line
MakeToken_from_position(q) ==
    Upper(q.service_id) \o <<"-">> \o Format03d(Len(q.waiting) + 1)

\* the token create_booking builds from the current next_token_number
MakeToken(q) == Upper(q.service_id) \o <<"-">> \o Format03d(q.next_token_number)

\* mutant: the token generator advances by two
create_booking_skips_token(q, user_name) ==
    IF is_full(q) THEN <<q, None>>
    ELSE LET booking == Booking(MakeToken(q), user_name, q.service_id,
                                estimate_wait_minutes(q))
         IN  << [q EXCEPT !.waiting = Append(@, booking),
                          !.total_bookings_created = @ + 1,
                          !.next_token_number = @ + 2],
                Some(booking) >>

\* mutant: a refused booking still consumes a token number
create_booking_burns_token(q, user_name) ==
    IF is_full(q) THEN <<[q EXCEPT !.next_token_number = @ + 1], None>>
    ELSE LET booking == Booking(MakeToken(q), user_name, q.service_id,
                                estimate_wait_minutes(q))
         IN  << [q EXCEPT !.waiting = Append(@, booking),
                          !.total_bookings_created = @ + 1,
                          !.next_token_number = @ + 1],
                Some(booking) >>

\* ServiceQueue.create_booking: the pair <<updated queue, Optional[Booking]>>
create_booking(q, user_name) ==
    IF is_full(q) THEN <<q, None>>
    ELSE LET booking == Booking(MakeToken(q), user_name, q.service_id,
                                estimate_wait_minutes(q))
         IN  << [q EXCEPT !.waiting = Append(@, booking),
                          !.total_bookings_created = @ + 1,
                          !.next_token_number = @ + 1],
                Some(booking) >>

\* mutant: nobody is served once the service has reached its daily capacity
mark_next_served_closed_when_full(q) ==
    IF q.waiting = <<>> \/ q.total_bookings_created >= q.daily_capacity
    THEN <<q, None>>
    ELSE << [q EXCEPT !.waiting = Tail(@), !.served_count = @ + 1],
            Some(Head(q.waiting)) >>

\* mutant: served_count is not incremented
mark_next_served_no_count(q) ==
    IF q.waiting = <<>> THEN <<q, None>>
    ELSE << [q EXCEPT !.waiting = Tail(@)], Some(Head(q.waiting)) >>

\* mutant: the newest booking is removed (pop instead of popleft)
mark_next_served_newest(q) ==
    IF q.waiting = <<>> THEN <<q, None>>
    ELSE << [q EXCEPT !.waiting = SubSeq(@, 1, Len(@) - 1), !.served_count = @ + 1],
            Some(q.waiting[Len(q.waiting)]) >>

\* ServiceQueue.mark_next_served: the pair <<updated queue, Optional[Booking]>>
mark_next_served(q) ==
    IF q.waiting = <<>> THEN <<q, None>>
    ELSE << [q EXCEPT !.waiting = Tail(@), !.served_count = @ + 1],
            Some(Head(q.waiting)) >>

----------------------------------------------------------------------------
(* VirtualQueueManager *)

\* the services dict after the constructor's loop over the first n configs
RECURSIVE BuildServices(_, _)
BuildServices(cfg, n) ==
    IF n = 0 THEN <<>>
    ELSE LET prev == BuildServices(cfg, n - 1)
             c == cfg[n]
         IN  [sid \in (DOMAIN prev) \cup {c[1]} |->
                 IF sid = c[1] THEN ServiceQueue(c[1], c[2], c[3], c[4])
                 ELSE prev[sid]]

\* insertion order of the dict keys: a repeated key keeps its first position
RECURSIVE BuildOrder(_, _)
BuildOrder(cfg, n) ==
    IF n = 0 THEN <<>>
    ELSE LET prev == BuildOrder(cfg, n - 1)
         IN  IF \E i \in 1..Len(prev) : prev[i] = cfg[n][1]
             THEN prev
             ELSE Append(prev, cfg[n][1])

\* mutant: every service is recorded with the number waiting over all services
Snapshot_all_lines(svcs) ==
    [sid \in DOMAIN svcs |->
        Cardinality(UNION { { <<s, i>> : i \in 1..Len(svcs[s].waiting) } :
                            s \in DOMAIN svcs })]

\* mutant: the snapshot records the bookings created instead of those waiting
Snapshot_of_totals(svcs) == [sid \in DOMAIN svcs |-> svcs[sid].total_bookings_created]

\* the snapshot _record_history appends
Snapshot(svcs) == [sid \in DOMAIN svcs |-> people_waiting(svcs[sid])]

\* mutant: the snapshot overwrites the newest entry instead of being appended
_record_history_overwrite(svcs, hist) ==
    IF hist = <<>> THEN <<Snapshot(svcs)>>
    ELSE [hist EXCEPT ![Len(hist)] = Snapshot(svcs)]

_record_history(svcs, hist) == Append(hist, Snapshot(svcs))

\* dict item assignment d[k] = v
DictSet(d, k, v) == [x \in (DOMAIN d) \cup {k} |-> IF x = k THEN v ELSE d[x]]

Message(kind, args) == [kind |-> kind, args |-> args]

Call(op, user_name, service_id, ok, msg, booking) ==
    [ op |-> op, user_name |-> user_name, service_id |-> service_id,
      ok |-> ok, msg |-> msg, booking |-> booking ]

\* caller threads that may share one manager
Threads == {1, 2}

\* a thread that is not inside a call
Idle == [ pc |-> "idle", op |-> "none", user_name |-> <<>>, service_id |-> <<>>,
          token |-> <<>>, estimated_wait |-> 0, booking |-> None, snapshot |-> <<>> ]

\* VirtualQueueManager.__init__
Init ==
    \E cfg \in Configs :
        /\ services = BuildServices(cfg, Len(cfg))
        /\ order = BuildOrder(cfg, Len(cfg))
        /\ booking_index = <<>>
        /\ history = _record_history(BuildServices(cfg, Len(cfg)), <<>>)
        /\ last = Call("init", <<>>, <<>>, TRUE, Message("Constructed", <<>>), None)
        /\ issued = [sid \in DOMAIN BuildServices(cfg, Len(cfg)) |-> <<>>]
        /\ servedLog = [sid \in DOMAIN BuildServices(cfg, Len(cfg)) |-> <<>>]
        /\ threads = [t \in Threads |-> Idle]

\* book_slot returning a failure tuple: nothing but the result changes
BookFails(user_name, service_id, msg) ==
    /\ last' = Call("book", user_name, service_id, FALSE, msg, None)
    /\ UNCHANGED <<services, order, booking_index, history, issued, servedLog>>

\* mutant: the name is checked before the service id is looked up
book_slot_name_first(user_name, service_id) ==
    IF Strip(user_name) = <<>>
    THEN BookFails(user_name, service_id, Message("User name cannot be empty", <<>>))
    ELSE IF service_id \notin DOMAIN services
    THEN BookFails(user_name, service_id, Message("Invalid service id", <<service_id>>))
    ELSE LET res == create_booking(services[service_id], Strip(user_name))
             svcs == [services EXCEPT ![service_id] = res[1]]
         IN  IF res[2] = None
             THEN /\ services' = svcs
                  /\ last' = Call("book", user_name, service_id, FALSE,
                                  Message("at full daily capacity",
                                          <<services[service_id].display_name>>), None)
                  /\ UNCHANGED <<order, booking_index, history, issued, servedLog>>
             ELSE /\ services' = svcs
                  /\ booking_index' = DictSet(booking_index, res[2][1].token, res[2][1])
                  /\ history' = _record_history(svcs, history)
                  /\ last' = Call("book", user_name, service_id, TRUE,
                                  Message("Booking confirmed", <<>>), res[2])
                  /\ issued' = [issued EXCEPT ![service_id] = Append(@, res[2][1])]
                  /\ UNCHANGED <<order, servedLog>>

\* VirtualQueueManager.book_slot
book_slot(user_name, service_id) ==
    IF service_id \notin DOMAIN services
    THEN BookFails(user_name, service_id, Message("Invalid service id", <<service_id>>))
    ELSE IF Strip(user_name) = <<>>
    THEN BookFails(user_name, service_id, Message("User name cannot be empty", <<>>))
    ELSE LET res == create_booking(services[service_id], Strip(user_name))
             svcs == [services EXCEPT ![service_id] = res[1]]
         IN  IF res[2] = None
             THEN /\ services' = svcs
                  /\ last' = Call("book", user_name, service_id, FALSE,
                                  Message("at full daily capacity",
                                          <<services[service_id].display_name>>), None)
                  /\ UNCHANGED <<order, booking_index, history, issued, servedLog>>
             ELSE /\ services' = svcs
                  /\ booking_index' = DictSet(booking_index, res[2][1].token, res[2][1])
                  /\ history' = _record_history(svcs, history)
                  /\ last' = Call("book", user_name, service_id, TRUE,
                                  Message("Booking confirmed", <<>>), res[2])
                  /\ issued' = [issued EXCEPT ![service_id] = Append(@, res[2][1])]
                  /\ UNCHANGED <<order, servedLog>>

\* VirtualQueueManager.mark_served
mark_served(service_id) ==
    IF service_id \notin DOMAIN services
    THEN /\ last' = Call("serve", <<>>, service_id, FALSE,
                         Message("Invalid service id", <<service_id>>), None)
         /\ UNCHANGED <<services, order, booking_index, history, issued, servedLog>>
    ELSE LET res == mark_next_served(services[service_id])
             svcs == [services EXCEPT ![service_id] = res[1]]
         IN  IF res[2] = None
             THEN /\ services' = svcs
                  /\ last' = Call("serve", <<>>, service_id, FALSE,
                                  Message("Queue is empty",
                                          <<services[service_id].display_name>>), None)
                  /\ UNCHANGED <<order, booking_index, history, issued, servedLog>>
             ELSE /\ services' = svcs
                  /\ history' = _record_history(svcs, history)
                  /\ last' = Call("serve", <<>>, service_id, TRUE,
                                  Message("Marked served",
                                          <<res[2][1].token, res[2][1].user_name>>), res[2])
                  /\ servedLog' = [servedLog EXCEPT ![service_id] = Append(@, res[2][1])]
                  /\ UNCHANGED <<order, booking_index, issued>>

\* a single caller runs book_slot to completion
BookSlot == \E user_name \in UserNames, service_id \in ServiceIdInputs :
                book_slot(user_name, service_id) /\ UNCHANGED threads

\* a single caller runs mark_served to completion
MarkServed == \E service_id \in ServiceIdInputs :
                  mark_served(service_id) /\ UNCHANGED threads

Next == BookSlot \/ MarkServed

Spec == Init /\ [][Next]_vars

\* staff keep calling mark_served on every service
SpecServe ==
    /\ Init
    /\ [][Next]_vars
    /\ \A service_id \in ServiceIdInputs :
           WF_vars(mark_served(service_id) /\ UNCHANGED threads)

----------------------------------------------------------------------------
(* Reset (streamlit_app.py) *)

\* the configuration the manager was built from, read back from its services
ConfigOf(svcs, ord) ==
    [i \in 1..Len(ord) |->
        << svcs[ord[i]].service_id, svcs[ord[i]].display_name,
           svcs[ord[i]].daily_capacity, svcs[ord[i]].avg_service_minutes >>]

\* mutant: the queues are rebuilt but the old booking_index is kept
reset_manager_keeps_index ==
    LET cfg == ConfigOf(services, order)
        fresh == BuildServices(cfg, Len(cfg))
    IN  /\ services' = fresh
        /\ order' = BuildOrder(cfg, Len(cfg))
        /\ booking_index' = booking_index
        /\ history' = _record_history(fresh, <<>>)
        /\ last' = Call("reset", <<>>, <<>>, TRUE, Message("Constructed", <<>>), None)
        /\ issued' = [sid \in DOMAIN fresh |-> <<>>]
        /\ servedLog' = [sid \in DOMAIN fresh |-> <<>>]
        /\ UNCHANGED threads

\* reset_manager: the manager is discarded and a new one is constructed
\* from the same configuration
reset_manager ==
    LET cfg == ConfigOf(services, order)
        fresh == BuildServices(cfg, Len(cfg))
    IN  /\ services' = fresh
        /\ order' = BuildOrder(cfg, Len(cfg))
        /\ booking_index' = <<>>
        /\ history' = _record_history(fresh, <<>>)
        /\ last' = Call("reset", <<>>, <<>>, TRUE, Message("Constructed", <<>>), None)
        /\ issued' = [sid \in DOMAIN fresh |-> <<>>]
        /\ servedLog' = [sid \in DOMAIN fresh |-> <<>>]
        /\ UNCHANGED threads

NextReset == Next \/ reset_manager

SpecReset == Init /\ [][NextReset]_vars

----------------------------------------------------------------------------
(* Read-only queries *)

\* the format spec {x:<w}: left aligned, padded with blanks to width w
RECURSIVE LJust(_, _)
LJust(s, width) == IF Len(s) >= width THEN s ELSE LJust(s \o <<" ">>, width)

\* '#' * n
RECURSIVE Bar(_)
Bar(n) == IF n <= 0 THEN <<>> ELSE <<"#">> \o Bar(n - 1)

\* dict.get(key, default)
DictGet(d, k, default) == IF k \in DOMAIN d THEN d[k] ELSE default

\* VirtualQueueManager.list_services: the queues in insertion order
list_services(svcs, ord) == [i \in 1..Len(ord) |-> svcs[ord[i]]]

\* mutant: booked_total reports the current waiting length
queue_status_booked_is_waiting(svcs, ord) ==
    [i \in 1..Len(ord) |->
        [ waiting |-> people_waiting(svcs[ord[i]]),
          served |-> svcs[ord[i]].served_count,
          booked_total |-> people_waiting(svcs[ord[i]]),
          capacity |-> svcs[ord[i]].daily_capacity,
          avg_service_minutes |-> svcs[ord[i]].avg_service_minutes,
          est_wait_new_user |-> estimate_wait_minutes(svcs[ord[i]]) ]]

\* VirtualQueueManager.queue_status: one summary per service, in insertion order
queue_status(svcs, ord) ==
    [i \in 1..Len(ord) |->
        [ waiting |-> people_waiting(svcs[ord[i]]),
          served |-> svcs[ord[i]].served_count,
          booked_total |-> svcs[ord[i]].total_bookings_created,
          capacity |-> svcs[ord[i]].daily_capacity,
          avg_service_minutes |-> svcs[ord[i]].avg_service_minutes,
          est_wait_new_user |-> estimate_wait_minutes(svcs[ord[i]]) ]]

\* VirtualQueueManager.queue_status_rows: the formatted fields of each row
\* (the fixed text between them is left out)
queue_status_rows(svcs, ord) ==
    [i \in 1..Len(ord) |->
        << LJust(svcs[ord[i]].service_id, 12),
           LJust(Digits(people_waiting(svcs[ord[i]])), 3),
           LJust(Digits(svcs[ord[i]].served_count), 3),
           LJust(Digits(svcs[ord[i]].total_bookings_created), 3),
           LJust(Digits(svcs[ord[i]].daily_capacity), 3),
           Digits(svcs[ord[i]].avg_service_minutes),
           Digits(estimate_wait_minutes(svcs[ord[i]])) >>]

\* the lines print_history_graph writes for one service: its title, then
\* one line per history entry
GraphLines(svcs, sid, hist) ==
    << <<svcs[sid].display_name, sid>> >>
    \o [i \in 1..Len(hist) |->
           << ZeroPad(Digits(i - 1), 2),
              Bar(DictGet(hist[i], sid, 0)),
              Digits(DictGet(hist[i], sid, 0)) >>]

\* the lines of the first n services
RECURSIVE GraphOfFirst(_, _, _, _)
GraphOfFirst(svcs, ord, hist, n) ==
    IF n = 0 THEN << <<"Queue Length vs Event (ASCII graph)">> >>
    ELSE GraphOfFirst(svcs, ord, hist, n - 1) \o GraphLines(svcs, ord[n], hist)

\* VirtualQueueManager.print_history_graph
print_history_graph(svcs, ord, hist) == GraphOfFirst(svcs, ord, hist, Len(ord))

\* a query returns its value and assigns nothing
Query(op, value) ==
    /\ last' = Call(op, <<>>, <<>>, TRUE, Message(op, value), None)
    /\ UNCHANGED <<services, order, booking_index, history, issued, servedLog, threads>>

ListServices == Query("list_services", list_services(services, order))

QueueStatus == Query("queue_status", queue_status(services, order))

QueueStatusRows == Query("queue_status_rows", queue_status_rows(services, order))

PrintHistoryGraph ==
    Query("print_history_graph", print_history_graph(services, order, history))

NextQueries ==
    Next \/ ListServices \/ QueueStatus \/ QueueStatusRows \/ PrintHistoryGraph

SpecQueries == Init /\ [][NextQueries]_vars

----------------------------------------------------------------------------
(* Several callers on one manager: the methods take no lock, so a call is  *)
(* a sequence of statements that interleave with those of other callers.   *)
(* Each statement is one step.                                             *)

\* the thread moves to the next statement with updated locals
Goto(t, rec) == threads' = [threads EXCEPT ![t] = rec]

\* the thread's call returns
Return(t, ok, msg, booking) ==
    /\ last' = Call(IF threads[t].op = "book" THEN "book" ELSE "serve",
                    threads[t].user_name, threads[t].service_id, ok, msg, booking)
    /\ threads' = [threads EXCEPT ![t] = Idle]

\* book_slot, lines 114-119: lookup of the service and test of the name
TBookEnter(t) ==
    /\ threads[t].pc = "idle"
    /\ \E user_name \in UserNames, service_id \in ServiceIdInputs :
           IF service_id \notin DOMAIN services
           THEN /\ last' = Call("book", user_name, service_id, FALSE,
                                Message("Invalid service id", <<service_id>>), None)
                /\ UNCHANGED <<services, order, booking_index, history,
                               issued, servedLog, threads>>
           ELSE IF Strip(user_name) = <<>>
           THEN /\ last' = Call("book", user_name, service_id, FALSE,
                                Message("User name cannot be empty", <<>>), None)
                /\ UNCHANGED <<services, order, booking_index, history,
                               issued, servedLog, threads>>
           ELSE /\ Goto(t, [Idle EXCEPT !.pc = "is_full", !.op = "book",
                                        !.user_name = Strip(user_name),
                                        !.service_id = service_id])
                /\ UNCHANGED <<services, order, booking_index, history,
                               last, issued, servedLog>>

\* create_booking, lines 62-63, and the failure return of book_slot, 122-123
TIsFull(t) ==
    /\ threads[t].pc = "is_full"
    /\ IF is_full(services[threads[t].service_id])
       THEN Return(t, FALSE,
                   Message("at full daily capacity",
                           <<services[threads[t].service_id].display_name>>), None)
       ELSE Goto(t, [threads[t] EXCEPT !.pc = "token"]) /\ UNCHANGED last
    /\ UNCHANGED <<services, order, booking_index, history, issued, servedLog>>

\* create_booking, line 65
TToken(t) ==
    /\ threads[t].pc = "token"
    /\ Goto(t, [threads[t] EXCEPT !.pc = "estimate",
                                  !.token = MakeToken(services[threads[t].service_id])])
    /\ UNCHANGED <<services, order, booking_index, history, last, issued, servedLog>>

\* create_booking, line 66
TEstimate(t) ==
    /\ threads[t].pc = "estimate"
    /\ Goto(t, [threads[t] EXCEPT
                   !.pc = "append",
                   !.estimated_wait =
                       estimate_wait_minutes(services[threads[t].service_id])])
    /\ UNCHANGED <<services, order, booking_index, history, last, issued, servedLog>>

\* create_booking, lines 67-73
TAppend(t) ==
    /\ threads[t].pc = "append"
    /\ LET booking == Booking(threads[t].token, threads[t].user_name,
                              threads[t].service_id, threads[t].estimated_wait)
       IN  /\ services' = [services EXCEPT
                              ![threads[t].service_id].waiting = Append(@, booking)]
           /\ Goto(t, [threads[t] EXCEPT !.pc = "count", !.booking = Some(booking)])
    /\ UNCHANGED <<order, booking_index, history, last, issued, servedLog>>

\* create_booking, line 74
TCount(t) ==
    /\ threads[t].pc = "count"
    /\ services' = [services EXCEPT
                       ![threads[t].service_id].total_bookings_created = @ + 1]
    /\ Goto(t, [threads[t] EXCEPT !.pc = "advance"])
    /\ UNCHANGED <<order, booking_index, history, last, issued, servedLog>>

\* create_booking, line 75
TAdvance(t) ==
    /\ threads[t].pc = "advance"
    /\ services' = [services EXCEPT
                       ![threads[t].service_id].next_token_number = @ + 1]
    /\ Goto(t, [threads[t] EXCEPT !.pc = "index"])
    /\ UNCHANGED <<order, booking_index, history, last, issued, servedLog>>

\* book_slot, line 125
TIndex(t) ==
    /\ threads[t].pc = "index"
    /\ booking_index' = DictSet(booking_index, threads[t].booking[1].token,
                                threads[t].booking[1])
    /\ Goto(t, [threads[t] EXCEPT !.pc = "snapshot"])
    /\ UNCHANGED <<services, order, history, last, issued, servedLog>>

\* mark_served, lines 130-132: lookup of the service
TServeEnter(t) ==
    /\ threads[t].pc = "idle"
    /\ \E service_id \in ServiceIdInputs :
           IF service_id \notin DOMAIN services
           THEN /\ last' = Call("serve", <<>>, service_id, FALSE,
                                Message("Invalid service id", <<service_id>>), None)
                /\ UNCHANGED <<services, order, booking_index, history,
                               issued, servedLog, threads>>
           ELSE /\ Goto(t, [Idle EXCEPT !.pc = "waiting", !.op = "serve",
                                        !.service_id = service_id])
                /\ UNCHANGED <<services, order, booking_index, history,
                               last, issued, servedLog>>

\* mark_next_served, lines 79-80, and the failure return of mark_served, 135-136
TWaiting(t) ==
    /\ threads[t].pc = "waiting"
    /\ IF services[threads[t].service_id].waiting = <<>>
       THEN Return(t, FALSE,
                   Message("Queue is empty",
                           <<services[threads[t].service_id].display_name>>), None)
       ELSE Goto(t, [threads[t] EXCEPT !.pc = "popleft"]) /\ UNCHANGED last
    /\ UNCHANGED <<services, order, booking_index, history, issued, servedLog>>

\* mark_next_served, line 81; popleft on a deque emptied in the meantime
\* raises IndexError, which leaves mark_served
TPopleft(t) ==
    /\ threads[t].pc = "popleft"
    /\ IF services[threads[t].service_id].waiting = <<>>
       THEN /\ Return(t, FALSE, Message("IndexError", <<>>), None)
            /\ UNCHANGED services
       ELSE /\ services' = [services EXCEPT ![threads[t].service_id].waiting = Tail(@)]
            /\ Goto(t, [threads[t] EXCEPT
                           !.pc = "served",
                           !.booking =
                               Some(Head(services[threads[t].service_id].waiting))])
            /\ UNCHANGED last
    /\ UNCHANGED <<order, booking_index, history, issued, servedLog>>

\* mark_next_served, line 82
TServed(t) ==
    /\ threads[t].pc = "served"
    /\ services' = [services EXCEPT ![threads[t].service_id].served_count = @ + 1]
    /\ Goto(t, [threads[t] EXCEPT !.pc = "snapshot"])
    /\ UNCHANGED <<order, booking_index, history, last, issued, servedLog>>

\* _record_history, line 107
TSnapshot(t) ==
    /\ threads[t].pc = "snapshot"
    /\ Goto(t, [threads[t] EXCEPT !.pc = "record", !.snapshot = Snapshot(services)])
    /\ UNCHANGED <<services, order, booking_index, history, last, issued, servedLog>>

\* _record_history, line 108, and the success return, line 127 or 139
TRecord(t) ==
    /\ threads[t].pc = "record"
    /\ history' = Append(history, threads[t].snapshot)
    /\ IF threads[t].op = "book"
       THEN /\ Return(t, TRUE, Message("Booking confirmed", <<>>), threads[t].booking)
            /\ issued' = [issued EXCEPT
                             ![threads[t].service_id] = Append(@, threads[t].booking[1])]
            /\ UNCHANGED servedLog
       ELSE /\ Return(t, TRUE,
                       Message("Marked served",
                               <<threads[t].booking[1].token,
                                 threads[t].booking[1].user_name>>),
                       threads[t].booking)
            /\ servedLog' = [servedLog EXCEPT
                                ![threads[t].service_id] = Append(@, threads[t].booking[1])]
            /\ UNCHANGED issued
    /\ UNCHANGED <<services, order, booking_index>>

NextThreads ==
    \E t \in Threads :
        \/ TBookEnter(t) \/ TIsFull(t) \/ TToken(t) \/ TEstimate(t) \/ TAppend(t)
        \/ TCount(t) \/ TAdvance(t) \/ TIndex(t)
        \/ TServeEnter(t) \/ TWaiting(t) \/ TPopleft(t) \/ TServed(t)
        \/ TSnapshot(t) \/ TRecord(t)

\* one service with room for a single booking, shared by the callers
InitThreads ==
    /\ Init
    /\ Len(order) = 1
    /\ services[order[1]].daily_capacity = 1

SpecThreads == InitThreads /\ [][NextThreads]_vars

----------------------------------------------------------------------------
(* A long day: one service late in its day *)

\* numbers of bookings already made and served when the day is picked up,
\* just below the points where the token number gains a digit
DayStarts == {8, 98, 998}

\* the j-th booking of a service whose earlier bookings were all served
\* before it was made
PastBooking(q, j) ==
    Booking(MakeToken([q EXCEPT !.next_token_number = j]), <<"A">>, q.service_id, 0)

\* the service after n rounds of create_booking followed by mark_next_served
AfterRounds(q, n) ==
    [q EXCEPT !.total_bookings_created = n,
              !.next_token_number = n + 1,
              !.served_count = n]

\* the manager of one service after n rounds of book_slot followed by
\* mark_served, each call successful
InitLongDay ==
    \E n \in DayStarts :
        LET q == ServiceQueue(Doctor, DisplayName(Doctor), n + LongDayBookings, AvgSecond)
        IN  /\ services = [sid \in {Doctor} |-> AfterRounds(q, n)]
            /\ order = <<Doctor>>
            /\ booking_index =
                   [tok \in {PastBooking(q, j).token : j \in 1..n} |->
                       PastBooking(q, NumericSuffix(tok))]
            /\ history = [i \in 1..(2 * n + 1) |->
                              [sid \in {Doctor} |-> IF i % 2 = 0 THEN 1 ELSE 0]]
            /\ last = Call("serve", <<>>, Doctor, TRUE,
                           Message("Marked served", <<PastBooking(q, n).token, <<"A">> >>),
                           Some(PastBooking(q, n)))
            /\ issued = [sid \in {Doctor} |-> [j \in 1..n |-> PastBooking(q, j)]]
            /\ servedLog = [sid \in {Doctor} |-> [j \in 1..n |-> PastBooking(q, j)]]
            /\ threads = [t \in Threads |-> Idle]

SpecLongDay == InitLongDay /\ [][Next]_vars

----------------------------------------------------------------------------
(* Properties *)

ServiceIds == DOMAIN services

\* the step being taken is a book_slot / mark_served call on sid
BookedOn(sid) == last'.op = "book" /\ last'.service_id = sid
ServedOn(sid) == last'.op = "serve" /\ last'.service_id = sid

\* C1: every configured service satisfies
\* total_bookings_created == served_count + people_waiting() in every state
\* reached by book_slot and mark_served calls, successful or failed.
C1_CountersBalance ==
    \A sid \in ServiceIds :
        services[sid].total_bookings_created
            = services[sid].served_count + Len(services[sid].waiting)

\* a failed call made while a service has both served and waiting bookings
C1_Witness ==
    /\ last.ok = FALSE
    /\ \E sid \in ServiceIds :
           services[sid].served_count >= 1 /\ Len(services[sid].waiting) >= 1

\* C2: a service with a positive daily_capacity never has
\* total_bookings_created above daily_capacity.
C2_CapacityBound ==
    \A sid \in ServiceIds :
        services[sid].daily_capacity > 0
            => services[sid].total_bookings_created <= services[sid].daily_capacity

\* a booking was refused on a service whose counter stands at its capacity
C2_Witness ==
    /\ last.op = "book" /\ last.ok = FALSE
    /\ last.msg.kind = "at full daily capacity"
    /\ services[last.service_id].daily_capacity > 0
    /\ services[last.service_id].total_bookings_created
           = services[last.service_id].daily_capacity

\* C3: once total_bookings_created == daily_capacity the service stays at
\* capacity, and every book_slot call on it with a non-empty name fails with
\* the full-capacity result, returns no booking and changes no counter,
\* waiting line, booking_index entry or history entry; also after the waiting
\* line has been drained.
C3_CapacityGate ==
    [][ \A sid \in ServiceIds :
            services[sid].total_bookings_created = services[sid].daily_capacity
            => /\ services'[sid].total_bookings_created
                      = services'[sid].daily_capacity
               /\ (BookedOn(sid) /\ Strip(last'.user_name) # <<>>)
                      => /\ last'.ok = FALSE
                         /\ last'.msg.kind = "at full daily capacity"
                         /\ last'.booking = None
                         /\ UNCHANGED <<services, booking_index, history>> ]_vars

\* a booking with a valid name was refused on a full service whose waiting
\* line has been served down to nothing
C3_Witness ==
    /\ last.op = "book" /\ last.ok = FALSE
    /\ Strip(last.user_name) # <<>>
    /\ last.service_id \in ServiceIds
    /\ services[last.service_id].total_bookings_created
           = services[last.service_id].daily_capacity
    /\ services[last.service_id].waiting = <<>>
    /\ services[last.service_id].served_count >= 1

\* C4: the k-th successful book_slot call on a service issues a token with
\* numeric suffix k, whatever serves, failed calls and bookings on other
\* services come in between; so tokens within a service are pairwise distinct.
C4_TokenSequence ==
    \A sid \in ServiceIds :
        /\ \A k \in 1..Len(issued[sid]) :
               NumericSuffix(issued[sid][k].token) = k
        /\ \A i, j \in 1..Len(issued[sid]) :
               i # j => issued[sid][i].token # issued[sid][j].token

\* a service issued a second token after its first booking had been served
C4_Witness ==
    \E sid \in ServiceIds :
        /\ Len(issued[sid]) >= 2
        /\ Len(servedLog[sid]) >= 1
        /\ issued[sid][2].estimated_wait_minutes_at_booking = 0

\* C5: the booking returned by the N-th successful mark_served call on a
\* service is the booking created by the N-th successful book_slot call on it.
C5_FifoOrder ==
    \A sid \in ServiceIds :
        /\ Len(servedLog[sid]) <= Len(issued[sid])
        /\ \A n \in 1..Len(servedLog[sid]) : servedLog[sid][n] = issued[sid][n]

\* two bookings waited together in one line and both have been served
C5_Witness ==
    \E sid \in ServiceIds :
        /\ Len(servedLog[sid]) >= 2
        /\ servedLog[sid][2].estimated_wait_minutes_at_booking > 0

\* C6: a booking returned by a successful book_slot carries
\* (length of the service's waiting line just before the call)
\* * avg_service_minutes, and the value stored with a booking in the waiting
\* line does not change while the bookings ahead of it are served.
C6_WaitEstimate ==
    [][ /\ \A sid \in ServiceIds :
               (BookedOn(sid) /\ last'.ok)
                   => /\ last'.booking # None
                      /\ last'.booking[1].estimated_wait_minutes_at_booking
                             = Len(services[sid].waiting)
                                   * services[sid].avg_service_minutes
        /\ \A sid \in ServiceIds :
               \A i \in 1..Len(services[sid].waiting) :
                   \A j \in 1..Len(services'[sid].waiting) :
                       services'[sid].waiting[j].token = services[sid].waiting[i].token
                           => services'[sid].waiting[j].estimated_wait_minutes_at_booking
                                  = services[sid].waiting[i].estimated_wait_minutes_at_booking
        /\ \A sid \in ServiceIds :
               (ServedOn(sid) /\ last'.ok)
                   => last'.booking = Some(Head(services[sid].waiting)) ]_vars

\* a booking made behind another one is now at the front of the line, the
\* one ahead of it served, and still carries its non-zero estimate
C6_Witness ==
    \E sid \in ServiceIds :
        /\ services[sid].waiting # <<>>
        /\ services[sid].served_count >= 1
        /\ Head(services[sid].waiting).estimated_wait_minutes_at_booking
               = services[sid].avg_service_minutes

\* C7: a fresh manager has exactly one history entry; a successful book_slot
\* or mark_served appends exactly one entry and keeps the earlier ones; a
\* failed call leaves the history as it was.
C7_HistoryAppendOnly ==
    /\ Len(history) = 1
    /\ [][ /\ last'.ok
               => /\ Len(history') = Len(history) + 1
                  /\ SubSeq(history', 1, Len(history)) = history
           /\ ~last'.ok => history' = history ]_vars

\* a failed call made after at least two successful ones
C7_Witness == Len(history) >= 3 /\ last.ok = FALSE

\* C8: a call that returns success = false returns no booking and leaves the
\* services (waiting lines and counters), the booking_index and the history
\* exactly as they were.
C8_FailureAtomicity ==
    [][ ~last'.ok
            => /\ last'.booking = None
               /\ UNCHANGED <<services, order, booking_index, history>> ]_vars

\* a booking was refused for full capacity on a manager that has history
C8_Witness ==
    /\ last.op = "book" /\ last.ok = FALSE
    /\ last.msg.kind = "at full daily capacity"
    /\ Len(history) >= 2
    /\ booking_index # <<>>

\* number of bookings issued so far over the services in S
RECURSIVE IssuedCount(_)
IssuedCount(S) ==
    IF S = {} THEN 0
    ELSE LET sid == CHOOSE x \in S : TRUE
         IN  Len(issued[sid]) + IssuedCount(S \ {sid})

\* C9: every booking a successful book_slot returned is in booking_index
\* under its token, now and in every later state, and the index has as many
\* entries as bookings were made.
C9_IndexRetention ==
    /\ \A sid \in ServiceIds :
           \A k \in 1..Len(issued[sid]) :
               /\ issued[sid][k].token \in DOMAIN booking_index
               /\ booking_index[issued[sid][k].token] = issued[sid][k]
    /\ Cardinality(DOMAIN booking_index) = IssuedCount(ServiceIds)

\* C10: book_slot reports the first failing precondition in the order
\* service id, name, capacity and succeeds only when all three pass;
\* mark_served reports an unknown service id before an empty queue.
C10_CheckOrder ==
    [][ /\ last'.op = "book"
               => LET sid == last'.service_id
                      kind == last'.msg.kind
                  IN  IF sid \notin ServiceIds
                      THEN ~last'.ok /\ kind = "Invalid service id"
                      ELSE IF Strip(last'.user_name) = <<>>
                      THEN ~last'.ok /\ kind = "User name cannot be empty"
                      ELSE IF services[sid].total_bookings_created
                                  >= services[sid].daily_capacity
                      THEN ~last'.ok /\ kind = "at full daily capacity"
                      ELSE last'.ok /\ kind = "Booking confirmed"
        /\ last'.op = "serve"
               => LET sid == last'.service_id
                      kind == last'.msg.kind
                  IN  IF sid \notin ServiceIds
                      THEN ~last'.ok /\ kind = "Invalid service id"
                      ELSE IF services[sid].waiting = <<>>
                      THEN ~last'.ok /\ kind = "Queue is empty"
                      ELSE last'.ok /\ kind = "Marked served" ]_vars

\* an empty name was reported for a service that is also at full capacity
C10_Witness ==
    /\ last.op = "book" /\ last.ok = FALSE
    /\ last.msg.kind = "User name cannot be empty"
    /\ last.service_id \in ServiceIds
    /\ services[last.service_id].total_bookings_created
           >= services[last.service_id].daily_capacity

\* the part of a token after the upper-case service id and the hyphen
TokenSuffix(sid, token) == SubSeq(token, Len(sid) + 2, Len(token))

\* number of decimal digits of k
RECURSIVE DigitCount(_)
DigitCount(k) == IF k < 10 THEN 1 ELSE 1 + DigitCount(k \div 10)

\* the token starts with the service id in upper case and a hyphen
TokenPrefixOk(sid, token) ==
    /\ Len(token) >= Len(sid) + 1
    /\ \A i \in 1..Len(sid) : token[i] = UpperChar(sid[i])
    /\ token[Len(sid) + 1] = "-"

\* C11 as stated: the token of the k-th booking admitted by a service is the
\* service id in upper case, a hyphen and k written with exactly 3 digits.
C11_ThreeDigitToken ==
    \A sid \in ServiceIds :
        \A k \in 1..Len(issued[sid]) :
            /\ TokenPrefixOk(sid, issued[sid][k].token)
            /\ Len(TokenSuffix(sid, issued[sid][k].token)) = 3
            /\ ParseInt(TokenSuffix(sid, issued[sid][k].token)) = k

\* C11 amended: the token of the k-th booking admitted by a service is the
\* service id in upper case, a hyphen and k in decimal, zero-padded to at
\* least 3 digits: 3 digits up to 999, all the digits of k from 1000 on.
C11_TokenFormat ==
    \A sid \in ServiceIds :
        \A k \in 1..Len(issued[sid]) :
            /\ TokenPrefixOk(sid, issued[sid][k].token)
            /\ Len(TokenSuffix(sid, issued[sid][k].token))
                   = (IF DigitCount(k) > 3 THEN DigitCount(k) ELSE 3)
            /\ ParseInt(TokenSuffix(sid, issued[sid][k].token)) = k

\* the 1000th booking of a service has just been admitted
C11_Witness ==
    /\ last.op = "book" /\ last.ok
    /\ Len(issued[last.service_id]) = 1000

QueryOps == {"list_services", "queue_status", "queue_status_rows", "print_history_graph"}

\* C12: queue_status, queue_status_rows, list_services and print_history_graph
\* leave the services, the booking_index and the history unchanged, and
\* queue_status reports per service, in configuration order, the live
\* waiting, served and booked_total values and waiting * avg_service_minutes.
C12_ReadOnlyQueries ==
    [][ /\ last'.op \in QueryOps
               => UNCHANGED <<services, order, booking_index, history>>
        /\ last'.op = "queue_status"
               => /\ Len(last'.msg.args) = Len(order)
                  /\ \A i \in 1..Len(order) :
                         LET row == last'.msg.args[i]
                             q == services'[order[i]]
                         IN  /\ row.waiting = Len(q.waiting)
                             /\ row.served = q.served_count
                             /\ row.booked_total = q.total_bookings_created
                             /\ row.est_wait_new_user
                                    = Len(q.waiting) * q.avg_service_minutes ]_vars

\* queue_status was asked while a service had both served and waiting bookings
C12_Witness ==
    /\ last.op = "queue_status"
    /\ Len(order) = 2
    /\ \E sid \in ServiceIds :
           services[sid].served_count >= 1 /\ Len(services[sid].waiting) >= 1

\* C13: every history entry maps exactly the configured service ids to
\* waiting counts, entry 0 is all zeros, and the last entry equals the
\* current waiting count of every service (so each entry, never rewritten,
\* holds the counts that stood right after the operation that appended it).
C13_SnapshotContent ==
    /\ history # <<>>
    /\ \A i \in 1..Len(history) : DOMAIN history[i] = ServiceIds
    /\ \A sid \in ServiceIds :
           /\ history[1][sid] = 0
           /\ history[Len(history)][sid] = Len(services[sid].waiting)

\* a call failed after a serve had taken a line from two waiting to one
C13_Witness ==
    /\ last.ok = FALSE
    /\ Len(history) >= 4
    /\ \E sid \in ServiceIds :
           /\ history[Len(history)][sid] = 1
           /\ history[Len(history) - 1][sid] = 2

\* no caller is inside a call
Quiescent == \A t \in Threads : threads[t].pc = "idle"

\* C14: with simultaneous callers, once every call in flight has returned,
\* no two bookings of a service carry the same token, every service
\* satisfies total_bookings_created == served_count + len(waiting) and
\* total_bookings_created <= daily_capacity, and the newest history entry is
\* the snapshot of the operation that took effect last.
C14_ConcurrentSafety ==
    Quiescent =>
        \A sid \in ServiceIds :
            /\ \A i, j \in 1..Len(issued[sid]) :
                   i # j => issued[sid][i].token # issued[sid][j].token
            /\ services[sid].total_bookings_created
                   = services[sid].served_count + Len(services[sid].waiting)
            /\ services[sid].total_bookings_created <= services[sid].daily_capacity
            /\ history[Len(history)][sid] = Len(services[sid].waiting)

HasWaiting(sid) == sid \in ServiceIds /\ services[sid].waiting # <<>>
IsDrained(sid) == sid \in ServiceIds /\ services[sid].waiting = <<>>

\* C15: mark_served on a service with a non-empty waiting line succeeds,
\* full or not, removing one waiting booking and adding one to served_count
\* with total_bookings_created and next_token_number unchanged; on an empty
\* line it fails with queue-empty; and when mark_served keeps being called,
\* a non-empty waiting line eventually becomes empty.
C15_ServeStaysAvailable ==
    /\ [][ \A sid \in ServiceIds :
               ServedOn(sid)
                   => IF services[sid].waiting # <<>>
                      THEN /\ last'.ok
                           /\ services'[sid].waiting = Tail(services[sid].waiting)
                           /\ services'[sid].served_count
                                  = services[sid].served_count + 1
                           /\ services'[sid].total_bookings_created
                                  = services[sid].total_bookings_created
                           /\ services'[sid].next_token_number
                                  = services[sid].next_token_number
                      ELSE /\ ~last'.ok
                           /\ last'.msg.kind = "Queue is empty"
                           /\ services' = services ]_vars
    /\ \A sid \in ServiceIdInputs : HasWaiting(sid) ~> IsDrained(sid)

\* a full service has just had its last waiting booking served
C15_Witness ==
    /\ last.op = "serve" /\ last.ok
    /\ services[last.service_id].total_bookings_created
           = services[last.service_id].daily_capacity
    /\ services[last.service_id].waiting = <<>>
    /\ services[last.service_id].daily_capacity >= 2

\* 1 if the condition holds, else 0
Inc(cond) == IF cond THEN 1 ELSE 0

\* C16: total_bookings_created and next_token_number of a service grow by
\* exactly 1 on a successful booking of that service and stay put on every
\* other step; served_count grows by exactly 1 on a successful serve of that
\* service and stays put on every other step; so none of them ever decreases.
C16_CounterMonotonicity ==
    [][ \A sid \in ServiceIds :
            /\ services'[sid].total_bookings_created
                   = services[sid].total_bookings_created
                         + Inc(BookedOn(sid) /\ last'.ok)
            /\ services'[sid].next_token_number
                   = services[sid].next_token_number + Inc(BookedOn(sid) /\ last'.ok)
            /\ services'[sid].served_count
                   = services[sid].served_count + Inc(ServedOn(sid) /\ last'.ok) ]_vars

\* a booking succeeded on a service that had already served someone
C16_Witness ==
    /\ last.op = "book" /\ last.ok
    /\ services[last.service_id].served_count >= 1
    /\ services[last.service_id].total_bookings_created >= 2

\* C17: right after construction and right after a reset, every service has
\* nobody waiting, served_count 0, total_bookings_created 0 and a new-user
\* estimate of 0, the booking_index is empty and the history is the single
\* entry mapping every service to 0.
C17_FreshState ==
    last.op \in {"init", "reset"}
        => /\ \A sid \in ServiceIds :
                  /\ services[sid].waiting = <<>>
                  /\ services[sid].served_count = 0
                  /\ services[sid].total_bookings_created = 0
                  /\ Len(services[sid].waiting) * services[sid].avg_service_minutes = 0
           /\ booking_index = <<>>
           /\ Len(history) = 1
           /\ DOMAIN history[1] = ServiceIds
           /\ \A sid \in ServiceIds : history[1][sid] = 0

\* the manager has just been reset
C17_Witness == last.op = "reset" /\ Len(order) = 2

\* C18: a book_slot or mark_served call addressed to service A leaves every
\* other service B unchanged, and the snapshot it appends, if any, repeats
\* B's count from the previous snapshot.
C18_ServiceIsolation ==
    [][ \A b \in ServiceIds :
            (last'.op \in {"book", "serve"} /\ last'.service_id # b)
                => /\ services'[b] = services[b]
                   /\ Len(history') > Len(history)
                          => history'[Len(history')][b] = history[Len(history)][b] ]_vars

\* a call on one service succeeded while the other service had a booking waiting
C18_Witness ==
    /\ last.op \in {"book", "serve"} /\ last.ok
    /\ \E b \in ServiceIds :
           /\ b # last.service_id
           /\ services[b].waiting # <<>>
           /\ history[Len(history)][b] = 1

\* sum of total_bookings_created + served_count over the services in S
RECURSIVE CounterSum(_)
CounterSum(S) ==
    IF S = {} THEN 0
    ELSE LET sid == CHOOSE x \in S : TRUE
         IN  services[sid].total_bookings_created + services[sid].served_count
                 + CounterSum(S \ {sid})

\* sum of daily_capacity over the services in S
RECURSIVE CapacitySum(_)
CapacitySum(S) ==
    IF S = {} THEN 0
    ELSE LET sid == CHOOSE x \in S : TRUE
         IN  services[sid].daily_capacity + CapacitySum(S \ {sid})

\* every service is at its capacity and has nobody waiting
AllFullAndDrained ==
    \A sid \in ServiceIds :
        /\ services[sid].total_bookings_created >= services[sid].daily_capacity
        /\ services[sid].waiting = <<>>

\* C19: len(history) == 1 + sum of (total_bookings_created + served_count),
\* hence at most 1 + 2 * (sum of daily capacities); and once every service
\* is full and drained every book_slot and mark_served call fails and the
\* manager's state no longer changes.
C19_BoundedProgress ==
    /\ [](/\ Len(history) = 1 + CounterSum(ServiceIds)
          /\ Len(history) <= 1 + 2 * CapacitySum(ServiceIds))
    /\ [][ AllFullAndDrained
               => /\ ~last'.ok
                  /\ UNCHANGED <<services, order, booking_index, history>> ]_vars

\* a call failed on a manager of two services, all full and drained
C19_Witness ==
    /\ AllFullAndDrained
    /\ Len(order) = 2
    /\ Len(history) = 1 + 2 * CapacitySum(ServiceIds)
    /\ last.ok = FALSE

\* C20: next_token_number == total_bookings_created + 1 for every service in
\* every state; a rejected booking consumes no token number.
C20_TokenCoupling ==
    \A sid \in ServiceIds :
        services[sid].next_token_number = services[sid].total_bookings_created + 1

\* a booking was rejected on a full service after others had been admitted
C20_Witness ==
    /\ last.op = "book" /\ last.ok = FALSE
    /\ last.msg.kind = "at full daily capacity"
    /\ services[last.service_id].next_token_number >= 3

====
